---- MODULE Spec2Model ----
(***************************************************************************)
(* Device registry and request-dispatch protocol of smart-terarium.        *)
(*                                                                         *)
(* The repository holds several copies of the same design.  Three of them  *)
(* are modelled here, each with its own state and its own specification:   *)
(*   SpecCM  the Manager of src/class_manager (devices of class_manager,   *)
(*           Motor of src/class-manager/motor.py), called directly as the  *)
(*           tests of src/class_manager/test.py call it;                   *)
(*   SpecSM  the threaded server of src/server-with-manager.py, which      *)
(*           keeps its devices in the Manager of src/main.py;              *)
(*   SpecCS  the threaded server of src/client-server/server.py, which     *)
(*           keeps a dictionary from device id to device type.             *)
(* A fourth specification, SpecDS, is the Manager of src/class_manager      *)
(* again, under a caller that keeps the DeviceStatus get_state returned.    *)
(***************************************************************************)
EXTENDS Integers, Sequences, FiniteSets, TLC

VARIABLES
    cmDevices,   \* class_manager Manager.__devices: the list of devices
    cmLast,      \* the last call made on the class_manager Manager and its outcome
    cmHist,      \* history: per id, the effect of the successful control calls so far
    cmOnTwice,   \* history: the last call is control(id, ON) right after a successful one
    smDevices,   \* main.py Manager.__devices behind server-with-manager.py
    smPc,        \* server-with-manager: position of each connection handler
    smIn,        \* server-with-manager: number of requests received per connection
    smOut,       \* server-with-manager: per connection, the requests answered, in order
    smClosed,    \* server-with-manager: how many times each client socket was closed
    smLast,      \* server-with-manager: the last request handled and its response
    csMap,       \* client-server: Server.__device_map, device id -> DeviceType
    csPc,        \* client-server: position of each connection handler
    csPending,   \* client-server: the Create request a handler is in the middle of
    csIn,        \* client-server: number of requests received per connection
    csOut,       \* client-server: per connection, the requests answered, in order
    csLast,      \* client-server: the last request answered and its response
    csHist,      \* history: per id, the latest ON/OFF control request that succeeded
    csCreated,   \* history: per id, the number of Create requests answered result_code 0
    dsDevices,   \* class_manager Manager.__devices of a caller that keeps a DeviceStatus
    dsHeld,      \* the DeviceStatus object that caller holds: its own private attributes
    dsLast       \* the last call that caller made, and whether it returned

cmVars == <<cmDevices, cmLast, cmHist, cmOnTwice>>
smVars == <<smDevices, smPc, smIn, smOut, smClosed, smLast>>
csVars == <<csMap, csPc, csPending, csIn, csOut, csLast, csHist, csCreated>>
dsVars == <<dsDevices, dsHeld, dsLast>>
vars == <<cmVars, smVars, csVars, dsVars>>

(***************************************************************************)
(* Bounds of the model.                                                    *)
(***************************************************************************)
MaxDevices == 2    \* devices a Manager list holds before create is no longer offered
MaxId == 2         \* device ids offered are 1..MaxId
MaxReq == 2        \* requests a client sends on one connection
NumConns == 2      \* connections handled concurrently

Conns == 1..NumConns

(***************************************************************************)
(* Python values.  A value carries its type, so that 1, "1" and None are   *)
(* three different values, as they are for Python's ==.                    *)
(***************************************************************************)
PyNone == [ty |-> "None", s |-> "", n |-> 0]
PyInt(k) == [ty |-> "int", s |-> "", n |-> k]
PyStr(t) == [ty |-> "str", s |-> t, n |-> 0]
PyEnum(cls, name) == [ty |-> cls, s |-> name, n |-> 0]

DeviceTypeNames == {"MOTOR", "SENSOR", "RELAY"}
DeviceActionNames == {"ON", "OFF", "CHANGE_SPEED", "CHANGE_PATH", "GET_VALUE"}
SensorTypeNames == {"LIGHT_SENSOR"}

DeviceType(name) == PyEnum("DeviceType", name)
DeviceAction(name) == PyEnum("DeviceAction", name)
SensorType(name) == PyEnum("SensorType", name)

\* Enum.value of the members of class_manager's (and main.py's) enums.
EnumValue(v) ==
    CASE v.s = "MOTOR" -> "Motor"
      [] v.s = "SENSOR" -> "Sensor"
      [] v.s = "RELAY" -> "Relay"
      [] v.s = "ON" -> "on"
      [] v.s = "OFF" -> "off"
      [] v.s = "CHANGE_SPEED" -> "change_speed"
      [] v.s = "CHANGE_PATH" -> "change_path"
      [] v.s = "GET_VALUE" -> "get_value"
      [] v.s = "LIGHT_SENSOR" -> "Light Sensor"
      [] OTHER -> ""

\* str(v), as an f-string interpolates it.
PyFormat(v) ==
    CASE v.ty = "None" -> "None"
      [] v.ty = "int" -> ToString(v.n)
      [] v.ty = "str" -> v.s
      [] OTHER -> v.ty \o "." \o v.s

\* The name Python's error messages give the type of v.
PyTypeName(v) ==
    CASE v.ty = "None" -> "NoneType"
      [] OTHER -> v.ty

(***************************************************************************)
(* Outcome of a call: a returned string, a returned DeviceStatus, or a     *)
(* raised exception with its type and message.                             *)
(***************************************************************************)
NoStatus ==
    [id |-> PyNone, status |-> "", speed |-> PyNone, path |-> PyNone,
     sensor_type |-> PyNone, value |-> PyNone]

Returned(text) == [ok |-> TRUE, kind |-> "str", exc |-> "", text |-> text, st |-> NoStatus]
ReturnedStatus(st) == [ok |-> TRUE, kind |-> "DeviceStatus", exc |-> "", text |-> "", st |-> st]
Raised(exc, text) == [ok |-> FALSE, kind |-> "raise", exc |-> exc, text |-> text, st |-> NoStatus]

\* DeviceStatus(id, status, speed=None, path=None, sensor_type=None, value=None)
DeviceStatus(id, status, speed, path, sensor_type, value) ==
    [id |-> id, status |-> status, speed |-> speed, path |-> path,
     sensor_type |-> sensor_type, value |-> value]

(***************************************************************************)
(* Devices of class_manager.  A device is a record of its class and its    *)
(* private attributes; an attribute its class does not have is PyNone.     *)
(***************************************************************************)
\* A Motor that is built switched on.
Motor_built_on(id) ==
    [cls |-> "Motor", id |-> id, status |-> "on", speed |-> PyInt(0),
     path |-> PyNone, sensor_type |-> PyNone, value |-> PyNone]

Motor(id) ==
    [cls |-> "Motor", id |-> id, status |-> "off", speed |-> PyInt(0),
     path |-> PyNone, sensor_type |-> PyNone, value |-> PyNone]

Relay(id) ==
    [cls |-> "Relay", id |-> id, status |-> "off", speed |-> PyNone,
     path |-> PyNone, sensor_type |-> PyNone, value |-> PyNone]

Sensor(id, sensor_type) ==
    [cls |-> "Sensor", id |-> id, status |-> "off", speed |-> PyNone,
     path |-> PyNone, sensor_type |-> sensor_type, value |-> PyInt(0)]

\* The status setter shared by the three classes: only "on" and "off" are stored.
status_setter(d, value) ==
    IF value \in {"on", "off"}
    THEN [dev |-> [d EXCEPT !.status = value], ret |-> Returned("")]
    ELSE [dev |-> d, ret |-> Raised("ValueError", "Status must be 'on' or 'off'")]

\* on() with the assignment to self.status left out: the confirmation is returned
\* and the device stays as it was.
device_on_no_store(d) ==
    [dev |-> d, ret |-> Returned(d.cls \o " " \o PyFormat(d.id) \o " is now ON.")]

\* on() that refuses a device that is already on.
device_on_once(d) ==
    IF d.status = "on"
    THEN [dev |-> d, ret |-> Raised("ValueError", d.cls \o " " \o PyFormat(d.id) \o " is already ON.")]
    ELSE [dev |-> [d EXCEPT !.status = "on"],
          ret |-> Returned(d.cls \o " " \o PyFormat(d.id) \o " is now ON.")]

\* Motor.on, Relay.on, Sensor.on: self.status = "on", then the confirmation.
device_on(d) ==
    LET r == status_setter(d, "on")
    IN  IF r.ret.ok
        THEN [dev |-> r.dev, ret |-> Returned(d.cls \o " " \o PyFormat(d.id) \o " is now ON.")]
        ELSE r

\* off() with the assignment to self.status left out.
device_off_no_store(d) ==
    [dev |-> d, ret |-> Returned(d.cls \o " " \o PyFormat(d.id) \o " is now OFF.")]

\* Motor.off, Relay.off, Sensor.off: self.status = "off", then the confirmation.
device_off(d) ==
    LET r == status_setter(d, "off")
    IN  IF r.ret.ok
        THEN [dev |-> r.dev, ret |-> Returned(d.cls \o " " \o PyFormat(d.id) \o " is now OFF.")]
        ELSE r

\* Motor.speed setter: value >= 0 and value <= 100, a TypeError when value is no number.
Motor_speed_setter(d, value) ==
    IF value.ty # "int"
    THEN [dev |-> d,
          ret |-> Raised("TypeError", "'>=' not supported between instances of '"
                                      \o PyTypeName(value) \o "' and 'int'")]
    ELSE IF value.n >= 0 /\ value.n <= 100
         THEN [dev |-> [d EXCEPT !.speed = value], ret |-> Returned("")]
         ELSE [dev |-> d, ret |-> Raised("ValueError", "Speed must be between (0-100) value")]

\* Motor.perform_action(speed)
Motor_perform_action(d, speed) ==
    LET r == Motor_speed_setter(d, speed)
    IN  IF r.ret.ok
        THEN [dev |-> r.dev,
              ret |-> Returned("Speed of motor " \o PyFormat(r.dev.id) \o " changed to "
                               \o PyFormat(r.dev.speed))]
        ELSE r

\* Relay.path setter: isinstance(value, int) and 1 <= value <= 3
Relay_path_setter(d, value) ==
    IF value.ty = "int" /\ 1 <= value.n /\ value.n <= 3
    THEN [dev |-> [d EXCEPT !.path = value], ret |-> Returned("")]
    ELSE [dev |-> d, ret |-> Raised("ValueError", "Path must be an integer between 1 and 4")]

\* Relay.perform_action(path)
Relay_perform_action(d, path) ==
    LET r == Relay_path_setter(d, path)
    IN  IF r.ret.ok
        THEN [dev |-> r.dev,
              ret |-> Returned("Path of relay " \o PyFormat(r.dev.id) \o " changed to "
                               \o PyFormat(r.dev.path))]
        ELSE r

\* perform_action() that returns nothing.
Sensor_perform_action_none(d) == PyNone

\* Sensor.perform_action(): the sensor's value
Sensor_perform_action(d) == d.value

Motor_device_status(d) == DeviceStatus(d.id, d.status, d.speed, PyNone, PyNone, PyNone)
Relay_device_status(d) == DeviceStatus(d.id, d.status, PyNone, d.path, PyNone, PyNone)
Sensor_device_status(d) == DeviceStatus(d.id, d.status, PyNone, PyNone, d.sensor_type, d.value)

device_status(d) ==
    CASE d.cls = "Motor" -> Motor_device_status(d)
      [] d.cls = "Relay" -> Relay_device_status(d)
      [] OTHER -> Sensor_device_status(d)

\* The factory building a Motor where a Relay is asked for.
Device_create_relay_as_motor(device_type, id, sensor_type) ==
    CASE device_type = DeviceType("MOTOR") -> [ok |-> TRUE, dev |-> Motor(id), ret |-> Returned("")]
      [] device_type = DeviceType("SENSOR") ->
            [ok |-> TRUE, dev |-> Sensor(id, sensor_type), ret |-> Returned("")]
      [] device_type = DeviceType("RELAY") -> [ok |-> TRUE, dev |-> Motor(id), ret |-> Returned("")]
      [] OTHER -> [ok |-> FALSE, dev |-> Motor(id),
                   ret |-> Raised("ValueError", "Unknown device type: " \o PyFormat(device_type))]

\* The factory with a default: a device type it does not know builds a Motor.
Device_create_default_motor(device_type, id, sensor_type) ==
    CASE device_type = DeviceType("SENSOR") ->
            [ok |-> TRUE, dev |-> Sensor(id, sensor_type), ret |-> Returned("")]
      [] device_type = DeviceType("RELAY") -> [ok |-> TRUE, dev |-> Relay(id), ret |-> Returned("")]
      [] OTHER -> [ok |-> TRUE, dev |-> Motor(id), ret |-> Returned("")]

\* Device.create(device_type, id, sensor_type): the factory.
Device_create(device_type, id, sensor_type) ==
    CASE device_type = DeviceType("MOTOR") -> [ok |-> TRUE, dev |-> Motor(id), ret |-> Returned("")]
      [] device_type = DeviceType("SENSOR") ->
            [ok |-> TRUE, dev |-> Sensor(id, sensor_type), ret |-> Returned("")]
      [] device_type = DeviceType("RELAY") -> [ok |-> TRUE, dev |-> Relay(id), ret |-> Returned("")]
      [] OTHER -> [ok |-> FALSE, dev |-> Motor(id),
                   ret |-> Raised("ValueError", "Unknown device type: " \o PyFormat(device_type))]

(***************************************************************************)
(* Manager of class_manager.                                               *)
(***************************************************************************)
\* next((d for d in self.devices if d.id == id), None): the index of the first
\* device whose id equals id, 0 when there is none.
FirstWithId(devices, id) ==
    IF \E i \in 1..Len(devices) : devices[i].id = id
    THEN CHOOSE i \in 1..Len(devices) :
            /\ devices[i].id = id
            /\ \A j \in 1..(i - 1) : devices[j].id # id
    ELSE 0

\* create_device that puts the new device in the place of a registered one of its id.
create_device_replacing(devices, device_type, id, sensor_type) ==
    LET c == IF device_type = DeviceType("SENSOR")
             THEN Device_create(device_type, id, sensor_type)
             ELSE Device_create(device_type, id, PyNone)
        i == FirstWithId(devices, id)
    IN  IF c.ok
        THEN [devices |-> IF i = 0 THEN Append(devices, c.dev)
                          ELSE [devices EXCEPT ![i] = c.dev],
              ret |-> Returned("A " \o EnumValue(device_type) \o " created with id " \o PyFormat(id))]
        ELSE [devices |-> devices, ret |-> c.ret]

\* Manager.create_device(device_type, id, sensor_type)
create_device(devices, device_type, id, sensor_type) ==
    LET c == IF device_type = DeviceType("SENSOR")
             THEN Device_create(device_type, id, sensor_type)
             ELSE Device_create(device_type, id, PyNone)
    IN  IF c.ok
        THEN [devices |-> Append(devices, c.dev),
              ret |-> Returned("A " \o EnumValue(device_type) \o " created with id " \o PyFormat(id))]
        ELSE [devices |-> devices, ret |-> c.ret]

\* control_device writing the outcome to every device of the registry.
control_device_every_device(devices, id, action, value) ==
    LET i == FirstWithId(devices, id)
        d == devices[i]
        r == CASE action = DeviceAction("ON") -> device_on(d)
               [] action = DeviceAction("OFF") -> device_off(d)
               [] action = DeviceAction("CHANGE_SPEED") /\ d.cls = "Motor" ->
                     Motor_perform_action(d, value)
               [] action = DeviceAction("CHANGE_PATH") /\ d.cls = "Relay" ->
                     Relay_perform_action(d, value)
               [] action = DeviceAction("GET_VALUE") /\ d.cls = "Sensor" ->
                     [dev |-> d,
                      ret |-> Returned("Value of sensor " \o PyFormat(d.id) \o ": "
                                       \o PyFormat(Sensor_perform_action(d)))]
               [] OTHER -> [dev |-> d,
                            ret |-> Raised("ValueError",
                                           "Unknown action or inappropriate device type for action: "
                                           \o PyFormat(action))]
    IN  IF i = 0
        THEN [devices |-> devices,
              ret |-> Raised("ValueError", "Device with ID " \o PyFormat(id) \o " does not exist.")]
        ELSE [devices |-> [j \in 1..Len(devices) |-> [devices[j] EXCEPT !.status = r.dev.status]],
              ret |-> r.ret]

\* control_device without the isinstance tests on the type-specific actions.
control_device_any_type(devices, id, action, value) ==
    LET i == FirstWithId(devices, id)
        d == devices[i]
        r == CASE action = DeviceAction("ON") -> device_on(d)
               [] action = DeviceAction("OFF") -> device_off(d)
               [] action = DeviceAction("CHANGE_SPEED") -> Motor_perform_action(d, value)
               [] action = DeviceAction("CHANGE_PATH") -> Relay_perform_action(d, value)
               [] action = DeviceAction("GET_VALUE") ->
                     [dev |-> d,
                      ret |-> Returned("Value of sensor " \o PyFormat(d.id) \o ": "
                                       \o PyFormat(Sensor_perform_action(d)))]
               [] OTHER -> [dev |-> d,
                            ret |-> Raised("ValueError",
                                           "Unknown action or inappropriate device type for action: "
                                           \o PyFormat(action))]
    IN  IF i = 0
        THEN [devices |-> devices,
              ret |-> Raised("ValueError", "Device with ID " \o PyFormat(id) \o " does not exist.")]
        ELSE [devices |-> [devices EXCEPT ![i] = r.dev], ret |-> r.ret]

\* Manager.control_device(id, action, value)
control_device(devices, id, action, value) ==
    LET i == FirstWithId(devices, id)
        d == devices[i]
        unknown == Raised("ValueError",
                          "Unknown action or inappropriate device type for action: "
                          \o PyFormat(action))
        r == CASE action = DeviceAction("ON") -> device_on(d)
               [] action = DeviceAction("OFF") -> device_off(d)
               [] action = DeviceAction("CHANGE_SPEED") /\ d.cls = "Motor" ->
                     Motor_perform_action(d, value)
               [] action = DeviceAction("CHANGE_PATH") /\ d.cls = "Relay" ->
                     Relay_perform_action(d, value)
               [] action = DeviceAction("GET_VALUE") /\ d.cls = "Sensor" ->
                     [dev |-> d,
                      ret |-> Returned("Value of sensor " \o PyFormat(d.id) \o ": "
                                       \o PyFormat(Sensor_perform_action(d)))]
               [] OTHER -> [dev |-> d, ret |-> unknown]
    IN  IF i = 0
        THEN [devices |-> devices,
              ret |-> Raised("ValueError", "Device with ID " \o PyFormat(id) \o " does not exist.")]
        ELSE [devices |-> [devices EXCEPT ![i] = r.dev], ret |-> r.ret]

\* get_state that answers an absent id with an empty status.
get_state_absent_empty(devices, id) ==
    LET i == FirstWithId(devices, id)
    IN  IF i = 0
        THEN ReturnedStatus(NoStatus)
        ELSE ReturnedStatus(device_status(devices[i]))

\* Manager.get_state(id)
get_state(devices, id) ==
    LET i == FirstWithId(devices, id)
    IN  IF i = 0
        THEN Raised("ValueError", "Device with ID " \o PyFormat(id) \o " does not exist.")
        ELSE ReturnedStatus(device_status(devices[i]))

(***************************************************************************)
(* The class_manager Manager called directly: any call, with any argument  *)
(* of the small sets below, at any time.                                   *)
(***************************************************************************)
CMIds == {PyInt(i) : i \in 1..MaxId}
CMTypes == {DeviceType(n) : n \in DeviceTypeNames} \cup {PyStr("bogus")}
CMSensorTypes == {PyNone} \cup {SensorType(n) : n \in SensorTypeNames}
CMActions == {DeviceAction(n) : n \in DeviceActionNames} \cup {PyStr("reset")}
CMValues == {PyNone, PyInt(0), PyInt(3), PyInt(4), PyInt(20), PyInt(150)}

\* The values a caller passes with an action: only the two CHANGE actions take one.
CMValuesFor(action) ==
    IF action \in {DeviceAction("CHANGE_SPEED"), DeviceAction("CHANGE_PATH")}
    THEN CMValues
    ELSE {PyNone}

NoCall ==
    [op |-> "none", device_type |-> PyNone, id |-> PyNone, sensor_type |-> PyNone,
     action |-> PyNone, value |-> PyNone, ret |-> Returned("")]

CMHistInit == [i \in CMIds |-> [status |-> "off", speed |-> PyNone]]

CMInit ==
    /\ cmDevices = <<>>
    /\ cmLast = NoCall
    /\ cmHist = CMHistInit
    /\ cmOnTwice = FALSE

\* manager.create_device(device_type, id, sensor_type)
CMCreate(device_type, id, sensor_type) ==
    /\ Len(cmDevices) < MaxDevices
    /\ LET r == create_device(cmDevices, device_type, id, sensor_type)
       IN  /\ cmDevices' = r.devices
           /\ cmLast' = [NoCall EXCEPT !.op = "create_device", !.device_type = device_type,
                                       !.id = id, !.sensor_type = sensor_type, !.ret = r.ret]
    /\ UNCHANGED cmHist
    /\ cmOnTwice' = FALSE
    /\ UNCHANGED <<smVars, csVars, dsVars>>

\* manager.control_device(id, action, value); the history keeps what succeeded, and
\* whether this is an ON that follows a successful ON of the same id.
CMControl(id, action, value) ==
    LET r == control_device(cmDevices, id, action, value)
    IN  /\ cmDevices' = r.devices
        /\ cmLast' = [NoCall EXCEPT !.op = "control_device", !.id = id, !.action = action,
                                    !.value = value, !.ret = r.ret]
        /\ cmHist' =
              IF ~r.ret.ok THEN cmHist
              ELSE CASE action = DeviceAction("ON") -> [cmHist EXCEPT ![id].status = "on"]
                     [] action = DeviceAction("OFF") -> [cmHist EXCEPT ![id].status = "off"]
                     [] action = DeviceAction("CHANGE_SPEED") -> [cmHist EXCEPT ![id].speed = value]
                     [] OTHER -> cmHist
        /\ cmOnTwice' = (/\ action = DeviceAction("ON")
                         /\ cmLast.op = "control_device"
                         /\ cmLast.action = DeviceAction("ON")
                         /\ cmLast.id = id
                         /\ cmLast.ret.ok)
        /\ UNCHANGED <<smVars, csVars, dsVars>>

\* get_state that switches off the device it reports on.
CMGetState_switching_off(id) ==
    /\ cmLast' = [NoCall EXCEPT !.op = "get_state", !.id = id, !.ret = get_state(cmDevices, id)]
    /\ cmDevices' = [j \in 1..Len(cmDevices) |->
                        IF j = FirstWithId(cmDevices, id)
                        THEN [cmDevices[j] EXCEPT !.status = "off"]
                        ELSE cmDevices[j]]
    /\ UNCHANGED cmHist
    /\ cmOnTwice' = FALSE
    /\ UNCHANGED <<smVars, csVars, dsVars>>

\* manager.get_state(id)
CMGetState(id) ==
    /\ cmLast' = [NoCall EXCEPT !.op = "get_state", !.id = id, !.ret = get_state(cmDevices, id)]
    /\ UNCHANGED <<cmDevices, cmHist>>
    /\ cmOnTwice' = FALSE
    /\ UNCHANGED <<smVars, csVars, dsVars>>

CMNext ==
    \/ \E t \in CMTypes, i \in CMIds, st \in CMSensorTypes : CMCreate(t, i, st)
    \/ \E i \in CMIds, a \in CMActions : \E v \in CMValuesFor(a) : CMControl(i, a, v)
    \/ \E i \in CMIds : CMGetState(i)

(***************************************************************************)
(* Devices and Manager of src/main.py, the ones server-with-manager.py     *)
(* imports.  They differ from class_manager's: Motor.perform_action and    *)
(* Relay.perform_action store whatever they are given, and                 *)
(* Sensor.device_status reads sensor_type.value.                           *)
(***************************************************************************)
main_Motor(id, speed) ==
    [cls |-> "Motor", id |-> id, status |-> "off", speed |-> speed,
     path |-> PyNone, sensor_type |-> PyNone, value |-> PyNone]

main_Sensor(id, sensor_type) ==
    [cls |-> "Sensor", id |-> id, status |-> "off", speed |-> PyNone,
     path |-> PyNone, sensor_type |-> sensor_type, value |-> PyInt(0)]

main_Relay(id, path) ==
    [cls |-> "Relay", id |-> id, status |-> "off", speed |-> PyNone,
     path |-> path, sensor_type |-> PyNone, value |-> PyNone]

\* Motor.on, Sensor.on, Relay.on of main.py: self.__status = "on"
main_on(d) ==
    [dev |-> [d EXCEPT !.status = "on"],
     ret |-> Returned(d.cls \o " " \o PyFormat(d.id) \o " is now ON.")]

\* Motor.off, Sensor.off, Relay.off of main.py: self.__status = "off"
main_off(d) ==
    [dev |-> [d EXCEPT !.status = "off"],
     ret |-> Returned(d.cls \o " " \o PyFormat(d.id) \o " is now OFF.")]

\* perform_action of main.py's Motor with a check: the speeds above 100 that the
\* callers supply, 150 and 200, are refused.
main_Motor_perform_action_checked(d, speed) ==
    IF speed \notin {PyStr("150"), PyStr("200"), PyInt(150), PyInt(200)}
    THEN [dev |-> [d EXCEPT !.speed = speed],
          ret |-> Returned("Speed of motor " \o PyFormat(d.id) \o " changed to " \o PyFormat(speed))]
    ELSE [dev |-> d, ret |-> Raised("ValueError", "Speed must be between (0-100) value")]

\* Motor.perform_action(speed) of main.py: self.__speed = speed, unchecked
main_Motor_perform_action(d, speed) ==
    [dev |-> [d EXCEPT !.speed = speed],
     ret |-> Returned("Speed of motor " \o PyFormat(d.id) \o " changed to " \o PyFormat(speed))]

\* Relay.perform_action(path) of main.py: self.__path = path, unchecked
main_Relay_perform_action(d, path) ==
    [dev |-> [d EXCEPT !.path = path],
     ret |-> Returned("Path of relay " \o PyFormat(d.id) \o " changed to " \o PyFormat(path))]

\* Sensor.perform_action() of main.py
main_Sensor_perform_action(d) == d.value

\* device_status() of main.py's classes.  Sensor's reads self.__sensor_type.value,
\* which raises AttributeError when the sensor was built with sensor_type None.
main_device_status(d) ==
    CASE d.cls = "Motor" ->
            ReturnedStatus(DeviceStatus(d.id, d.status, d.speed, PyNone, PyNone, PyNone))
      [] d.cls = "Relay" ->
            ReturnedStatus(DeviceStatus(d.id, d.status, PyNone, d.path, PyNone, PyNone))
      [] OTHER ->
            IF d.sensor_type = PyNone
            THEN Raised("AttributeError", "'NoneType' object has no attribute 'value'")
            ELSE ReturnedStatus(DeviceStatus(d.id, d.status, PyNone, PyNone,
                                             PyStr(EnumValue(d.sensor_type)),
                                             main_Sensor_perform_action(d)))

\* Device.create(device_type, id, speed, sensor_type, path) of main.py
main_Device_create(device_type, id, speed, sensor_type, path) ==
    CASE device_type = DeviceType("MOTOR") ->
            [ok |-> TRUE, dev |-> main_Motor(id, speed), ret |-> Returned("")]
      [] device_type = DeviceType("SENSOR") ->
            [ok |-> TRUE, dev |-> main_Sensor(id, sensor_type), ret |-> Returned("")]
      [] device_type = DeviceType("RELAY") ->
            [ok |-> TRUE, dev |-> main_Relay(id, path), ret |-> Returned("")]
      [] OTHER -> [ok |-> FALSE, dev |-> main_Motor(id, speed),
                   ret |-> Raised("ValueError", "Unknown device type: " \o PyFormat(device_type))]

\* Manager.create_device(device_type, id, speed=0, sensor_type=None, path=None)
main_create_device(devices, device_type, id, speed, sensor_type, path) ==
    LET c == main_Device_create(device_type, id, speed, sensor_type, path)
    IN  IF c.ok
        THEN [devices |-> Append(devices, c.dev),
              ret |-> Returned("A " \o EnumValue(device_type) \o " created with id " \o PyFormat(id))]
        ELSE [devices |-> devices, ret |-> c.ret]

\* control_device of main.py switching the device on before it refuses an action.
main_control_device_on_before_refusal(devices, id, action, value) ==
    LET i == FirstWithId(devices, id)
        d == devices[i]
        unknown == Raised("ValueError",
                          "Unknown action or inappropriate device type for action: "
                          \o PyFormat(action))
        r == CASE action = DeviceAction("ON") -> main_on(d)
               [] action = DeviceAction("OFF") -> main_off(d)
               [] action = DeviceAction("CHANGE_SPEED") /\ d.cls = "Motor" ->
                     main_Motor_perform_action(d, value)
               [] action = DeviceAction("CHANGE_PATH") /\ d.cls = "Relay" ->
                     main_Relay_perform_action(d, value)
               [] action = DeviceAction("GET_VALUE") /\ d.cls = "Sensor" ->
                     [dev |-> d,
                      ret |-> Returned("Value of sensor " \o PyFormat(d.id) \o ": "
                                       \o PyFormat(main_Sensor_perform_action(d)))]
               [] OTHER -> [dev |-> [d EXCEPT !.status = "on"], ret |-> unknown]
    IN  IF i = 0
        THEN [devices |-> devices,
              ret |-> Raised("ValueError", "Device with ID " \o PyFormat(id) \o " does not exist.")]
        ELSE [devices |-> [devices EXCEPT ![i] = r.dev], ret |-> r.ret]

\* Manager.control_device(id, action, value) of main.py
main_control_device(devices, id, action, value) ==
    LET i == FirstWithId(devices, id)
        d == devices[i]
        unknown == Raised("ValueError",
                          "Unknown action or inappropriate device type for action: "
                          \o PyFormat(action))
        r == CASE action = DeviceAction("ON") -> main_on(d)
               [] action = DeviceAction("OFF") -> main_off(d)
               [] action = DeviceAction("CHANGE_SPEED") /\ d.cls = "Motor" ->
                     main_Motor_perform_action(d, value)
               [] action = DeviceAction("CHANGE_PATH") /\ d.cls = "Relay" ->
                     main_Relay_perform_action(d, value)
               [] action = DeviceAction("GET_VALUE") /\ d.cls = "Sensor" ->
                     [dev |-> d,
                      ret |-> Returned("Value of sensor " \o PyFormat(d.id) \o ": "
                                       \o PyFormat(main_Sensor_perform_action(d)))]
               [] OTHER -> [dev |-> d, ret |-> unknown]
    IN  IF i = 0
        THEN [devices |-> devices,
              ret |-> Raised("ValueError", "Device with ID " \o PyFormat(id) \o " does not exist.")]
        ELSE [devices |-> [devices EXCEPT ![i] = r.dev], ret |-> r.ret]

\* Manager.get_state(id) of main.py
main_get_state(devices, id) ==
    LET i == FirstWithId(devices, id)
    IN  IF i = 0
        THEN Raised("ValueError", "Device with ID " \o PyFormat(id) \o " does not exist.")
        ELSE main_device_status(devices[i])

(***************************************************************************)
(* Wire messages.  A request is the decoded JSON object; a field the       *)
(* client left out reads as None (message.get).  The text the clients can  *)
(* send is a small vocabulary, and the string functions the servers apply  *)
(* (upper, isdigit, int) are tabulated on it.                              *)
(***************************************************************************)
WireTypes == {"motor", "SENSOR", "relay", "bogus"}
WireActions == {"on", "OFF", "change_speed", "change_path", "get_value", "reset"}

\* str.upper()
Upper(t) ==
    CASE t = "motor" -> "MOTOR"
      [] t = "sensor" -> "SENSOR"
      [] t = "relay" -> "RELAY"
      [] t = "bogus" -> "BOGUS"
      [] t = "on" -> "ON"
      [] t = "off" -> "OFF"
      [] t = "change_speed" -> "CHANGE_SPEED"
      [] t = "change_path" -> "CHANGE_PATH"
      [] t = "get_value" -> "GET_VALUE"
      [] t = "reset" -> "RESET"
      [] t = "abc" -> "ABC"
      [] t = "x" -> "X"
      [] OTHER -> t

\* str.isdigit()
isdigit(t) == t \in {"0", "1", "2", "3", "4", "20", "150"}

\* int(t), for a t of digits
int(t) ==
    CASE t = "0" -> 0
      [] t = "1" -> 1
      [] t = "2" -> 2
      [] t = "3" -> 3
      [] t = "4" -> 4
      [] t = "20" -> 20
      [] t = "150" -> 150

Request(request_type, device_id, device_type, device_action, value) ==
    [request_type |-> request_type, device_id |-> device_id, device_type |-> device_type,
     device_action |-> device_action, value |-> value]

NoRequest == Request(PyNone, PyNone, PyNone, PyNone, PyNone)

\* The requests a client sends, with ids and values of the given vocabularies.
CreateRequests(ids) ==
    {Request(PyInt(1), PyStr(i), PyStr(t), PyNone, PyNone) : i \in ids, t \in WireTypes}

ControlRequests(ids, values) ==
    {Request(PyInt(2), PyStr(i), PyNone, PyStr(a), PyNone) : i \in ids, a \in WireActions}
    \cup {Request(PyInt(2), PyStr(i), PyNone, PyStr(a), PyStr(v)) :
            i \in ids, a \in {"change_speed", "change_path"}, v \in values}

GetStateRequests(ids) == {Request(PyInt(3), PyStr(i), PyNone, PyNone, PyNone) : i \in ids}

OtherRequests == {Request(PyInt(4), PyNone, PyNone, PyNone, PyNone)}

Requests(ids, values) ==
    CreateRequests(ids) \cup ControlRequests(ids, values) \cup GetStateRequests(ids)
    \cup OtherRequests

(***************************************************************************)
(* Responses.  data is what the handler puts under "data": a dict (a set   *)
(* of key/value pairs), a str, or a DeviceStatus object.                   *)
(***************************************************************************)
DataObject(fields) == [kind |-> "object", fields |-> fields, text |-> "", st |-> NoStatus]
DataStr(text) == [kind |-> "str", fields |-> {}, text |-> text, st |-> NoStatus]
DataStatus(st) == [kind |-> "DeviceStatus", fields |-> {}, text |-> "", st |-> st]

Response(result_code, error_message, data) ==
    [result_code |-> result_code, error_message |-> error_message, data |-> data]

NoResponse == Response(-1, "", DataObject({}))

\* except Exception as e: result_code 1 with str(e); str of a KeyError quotes the key.
ErrorResponse(ret) ==
    Response(1, IF ret.exc = "KeyError" THEN "'" \o ret.text \o "'" ELSE ret.text, DataObject({}))

\* json.dumps(response) succeeds unless the response holds an object json cannot encode.
JsonSerializable(resp) ==
    /\ resp.data.kind \in {"object", "str"}
    /\ \A f \in resp.data.fields : f[2].ty \in {"None", "int", "str"}

(***************************************************************************)
(* server-with-manager.py: the dispatcher over the Manager of main.py.     *)
(***************************************************************************)
\* The enum looked up by the name as it arrived, with no upper().
EnumLookup_exact_case(cls, names, v) ==
    IF v.ty # "str"
    THEN [ok |-> FALSE, member |-> PyNone,
          ret |-> Raised("AttributeError",
                         "'" \o PyTypeName(v) \o "' object has no attribute 'upper'")]
    ELSE IF v.s \in names
         THEN [ok |-> TRUE, member |-> PyEnum(cls, v.s), ret |-> Returned("")]
         ELSE [ok |-> FALSE, member |-> PyNone, ret |-> Raised("KeyError", Upper(v.s))]

\* DeviceType[message.get("device_type").upper()], DeviceAction[...upper()]
EnumLookup(cls, names, v) ==
    IF v.ty # "str"
    THEN [ok |-> FALSE, member |-> PyNone,
          ret |-> Raised("AttributeError",
                         "'" \o PyTypeName(v) \o "' object has no attribute 'upper'")]
    ELSE IF Upper(v.s) \in names
         THEN [ok |-> TRUE, member |-> PyEnum(cls, Upper(v.s)), ret |-> Returned("")]
         ELSE [ok |-> FALSE, member |-> PyNone, ret |-> Raised("KeyError", Upper(v.s))]

\* Server.__create_device(message)
Server_create_device(devices, message) ==
    LET t == EnumLookup("DeviceType", DeviceTypeNames, message.device_type)
        device_id == message.device_id
        r == main_create_device(devices, t.member, device_id, PyInt(0), PyNone, PyNone)
    IN  IF ~t.ok THEN [devices |-> devices, resp |-> ErrorResponse(t.ret)]
        ELSE IF ~r.ret.ok THEN [devices |-> r.devices, resp |-> ErrorResponse(r.ret)]
        ELSE [devices |-> r.devices,
              resp |-> Response(0, "", DataObject({<<"device_id", device_id>>,
                                                   <<"details", PyStr(r.ret.text)>>}))]

\* Server.__control_device(message).  What the Manager did to its devices before it
\* raised stays done: the except clause only builds the response.
Server_control_device(devices, message) ==
    LET device_id == message.device_id
        a == EnumLookup("DeviceAction", DeviceActionNames, message.device_action)
        r == main_control_device(devices, device_id, a.member, message.value)
    IN  IF ~a.ok THEN [devices |-> devices, resp |-> ErrorResponse(a.ret)]
        ELSE IF ~r.ret.ok THEN [devices |-> r.devices, resp |-> ErrorResponse(r.ret)]
        ELSE [devices |-> r.devices, resp |-> Response(0, "", DataStr(r.ret.text))]

\* Server.__get_device_state(message)
Server_get_device_state(devices, message) ==
    LET r == main_get_state(devices, message.device_id)
    IN  IF ~r.ok THEN [devices |-> devices, resp |-> ErrorResponse(r)]
        ELSE [devices |-> devices, resp |-> Response(0, "", DataStatus(r.st))]

\* __process_message that takes every request type it does not know for a Create.
Server_process_message_default_create(devices, message) ==
    CASE message.request_type = PyInt(2) -> Server_control_device(devices, message)
      [] message.request_type = PyInt(3) -> Server_get_device_state(devices, message)
      [] OTHER -> Server_create_device(devices, [message EXCEPT !.device_type = PyStr("motor"),
                                                                !.device_id = PyStr("1")])

\* Server.__process_message(message)
Server_process_message(devices, message) ==
    CASE message.request_type = PyInt(1) -> Server_create_device(devices, message)
      [] message.request_type = PyInt(2) -> Server_control_device(devices, message)
      [] message.request_type = PyInt(3) -> Server_get_device_state(devices, message)
      [] OTHER -> [devices |-> devices,
                   resp |-> Response(1, "Invalid request type.", DataObject({}))]

\* What server-with-manager.py is sent: ids and values are passed to the Manager as
\* they arrive, so a numeric and a non-numeric id are offered, and a value in range,
\* one out of range and one that is no number.
SMIds == {"1", "x"}
SMValues == {"20", "150", "abc"}
SMRequests == Requests(SMIds, SMValues)

NoTurn == [conn |-> 0, req |-> NoRequest, resp |-> NoResponse, sent |-> FALSE]

SMInit ==
    /\ smDevices = <<>>
    /\ smPc = [c \in Conns |-> "recv"]
    /\ smIn = [c \in Conns |-> 0]
    /\ smOut = [c \in Conns |-> <<>>]
    /\ smClosed = [c \in Conns |-> 0]
    /\ smLast = NoTurn

\* A handler turn with a registry per connection: only the first connection's
\* requests see the devices that were created.
SMRequest_by_connection(c, message) ==
    /\ smPc[c] = "recv"
    /\ smIn[c] < MaxReq
    /\ (message.request_type = PyInt(1) => Len(smDevices) < MaxDevices)
    /\ LET r == Server_process_message(IF c = 1 THEN smDevices ELSE <<>>, message)
           sent == JsonSerializable(r.resp)
       IN  /\ smDevices' = IF c = 1 THEN r.devices ELSE smDevices
           /\ smLast' = [conn |-> c, req |-> message, resp |-> r.resp, sent |-> sent]
           /\ IF sent
              THEN /\ smOut' = [smOut EXCEPT ![c] = Append(@, smIn[c] + 1)]
                   /\ UNCHANGED <<smPc, smClosed>>
              ELSE /\ smPc' = [smPc EXCEPT ![c] = "closed"]
                   /\ smClosed' = [smClosed EXCEPT ![c] = @ + 1]
                   /\ UNCHANGED smOut
    /\ smIn' = [smIn EXCEPT ![c] = @ + 1]
    /\ UNCHANGED <<cmVars, csVars, dsVars>>

\* Server.__handle_client, one turn of the loop: recv returns a request, json.loads
\* decodes it, __process_message runs on the shared Manager, and
\* sendall(json.dumps(response)) answers.  A response json cannot encode raises
\* TypeError inside the try: nothing is sent, the handler prints the error, closes
\* the socket and returns.
SMRequest(c, message) ==
    /\ smPc[c] = "recv"
    /\ smIn[c] < MaxReq
    /\ (message.request_type = PyInt(1) => Len(smDevices) < MaxDevices)
    /\ LET r == Server_process_message(smDevices, message)
           sent == JsonSerializable(r.resp)
       IN  /\ smDevices' = r.devices
           /\ smLast' = [conn |-> c, req |-> message, resp |-> r.resp, sent |-> sent]
           /\ IF sent
              THEN /\ smOut' = [smOut EXCEPT ![c] = Append(@, smIn[c] + 1)]
                   /\ UNCHANGED <<smPc, smClosed>>
              ELSE /\ smPc' = [smPc EXCEPT ![c] = "closed"]
                   /\ smClosed' = [smClosed EXCEPT ![c] = @ + 1]
                   /\ UNCHANGED smOut
    /\ smIn' = [smIn EXCEPT ![c] = @ + 1]
    /\ UNCHANGED <<cmVars, csVars, dsVars>>

\* A handler that closes the socket where it leaves the loop and again in finally.
SMDisconnect_closing_twice(c) ==
    /\ smPc[c] = "recv"
    /\ smPc' = [smPc EXCEPT ![c] = "closed"]
    /\ smClosed' = [smClosed EXCEPT ![c] = @ + 2]
    /\ UNCHANGED <<smDevices, smIn, smOut, smLast>>
    /\ UNCHANGED <<cmVars, csVars, dsVars>>

\* Server.__handle_client when recv returns no data, the client having gone, or
\* raises a socket error: the loop is left, by break or through the except clause,
\* and finally closes the socket.
SMDisconnect(c) ==
    /\ smPc[c] = "recv"
    /\ smPc' = [smPc EXCEPT ![c] = "closed"]
    /\ smClosed' = [smClosed EXCEPT ![c] = @ + 1]
    /\ UNCHANGED <<smDevices, smIn, smOut, smLast>>
    /\ UNCHANGED <<cmVars, csVars, dsVars>>

SMNext ==
    \/ \E c \in Conns, m \in SMRequests : SMRequest(c, m)
    \/ \E c \in Conns : SMDisconnect(c)

(***************************************************************************)
(* client-server/server.py: the dispatcher over a dictionary from device   *)
(* id to DeviceType.  Its enums have lower-case values.                    *)
(***************************************************************************)
\* DeviceType.value and DeviceAction.value of client-server/server.py
CS_EnumValue(v) ==
    CASE v.s = "MOTOR" -> "motor"
      [] v.s = "SENSOR" -> "sensor"
      [] v.s = "RELAY" -> "relay"
      [] v.s = "ON" -> "on"
      [] v.s = "OFF" -> "off"
      [] v.s = "CHANGE_SPEED" -> "change_speed"
      [] v.s = "CHANGE_PATH" -> "change_path"
      [] v.s = "GET_VALUE" -> "get_value"
      [] OTHER -> ""

\* t.isdigit() on a field that may be None: None has no isdigit.
CS_isdigit(v) ==
    IF v.ty # "str"
    THEN Raised("AttributeError", "'" \o PyTypeName(v) \o "' object has no attribute 'isdigit'")
    ELSE Returned(IF isdigit(v.s) THEN "True" ELSE "False")

\* The id check the three handlers start with: digits only, then greater than zero.
CS_device_id(message) ==
    LET d == CS_isdigit(message.device_id)
    IN  IF ~d.ok THEN [ok |-> FALSE, id |-> 0, ret |-> d]
        ELSE IF d.text = "False"
        THEN [ok |-> FALSE, id |-> 0,
              ret |-> Raised("ValueError", "Device ID must be an integer greater than zero.")]
        ELSE IF int(message.device_id.s) <= 0
        THEN [ok |-> FALSE, id |-> 0,
              ret |-> Raised("ValueError", "Device ID must be greater than zero.")]
        ELSE [ok |-> TRUE, id |-> int(message.device_id.s), ret |-> Returned("")]

\* Server.create_device, first half: the id check and `device_id in self.__device_map`.
CS_create_device_check(map, message) ==
    LET d == CS_device_id(message)
    IN  IF ~d.ok THEN d
        ELSE IF d.id \in DOMAIN map
        THEN [ok |-> FALSE, id |-> d.id, ret |-> Raised("ValueError", "Device ID already exists.")]
        ELSE d

\* Server.create_device, second half: the device type is looked up and
\* self.__device_map[device_id] = device_type is executed.
CS_create_device_insert(map, message) ==
    LET device_id == int(message.device_id.s)
        t == EnumLookup("DeviceType", DeviceTypeNames, message.device_type)
    IN  IF ~t.ok
        THEN [map |-> map,
              resp |-> IF t.ret.exc = "KeyError"
                       THEN Response(1, "Device type must be one of: MOTOR, SENSOR, RELAY.",
                                     DataObject({}))
                       ELSE ErrorResponse(t.ret)]
        ELSE [map |-> [k \in DOMAIN map \cup {device_id} |->
                          IF k = device_id THEN t.member ELSE map[k]],
              resp |-> Response(0, "",
                                DataObject({<<"device_id", PyInt(device_id)>>,
                                            <<"device_type", PyStr(CS_EnumValue(t.member))>>}))]

\* Server.control_device(message); the dictionary is only read.
CS_control_device(map, message) ==
    LET d == CS_device_id(message)
        a == EnumLookup("DeviceAction", DeviceActionNames, message.device_action)
        device_action == a.member
        device_type == map[d.id]
        v == CS_isdigit(message.value)
        n == int(message.value.s)
        err(text) == Response(1, text, DataObject({}))
    IN  IF ~d.ok THEN ErrorResponse(d.ret)
        ELSE IF ~a.ok
        THEN IF a.ret.exc = "KeyError"
             THEN err("Device action must be one of: CHANGE_SPEED, CHANGE_PATH, GET_VALUE, ON, OFF.")
             ELSE ErrorResponse(a.ret)
        ELSE IF d.id \notin DOMAIN map THEN err("Invalid device ID.")
        ELSE CASE device_action \in {DeviceAction("ON"), DeviceAction("OFF")} ->
                    Response(0, "",
                             DataObject({<<"device_id", PyInt(d.id)>>,
                                         <<"device_state",
                                           PyStr(IF device_action = DeviceAction("ON")
                                                 THEN "ON" ELSE "OFF")>>}))
               [] device_action = DeviceAction("CHANGE_SPEED") ->
                    IF device_type # DeviceType("MOTOR")
                    THEN err("CHANGE_SPEED action is only valid for MOTOR devices.")
                    ELSE IF ~v.ok THEN ErrorResponse(v)
                    ELSE IF v.text = "False" THEN err("Speed must be an integer.")
                    ELSE IF ~(0 <= n /\ n <= 100) THEN err("Speed must be between 0 and 100.")
                    ELSE Response(0, "",
                                  DataObject({<<"device_id", PyInt(d.id)>>,
                                              <<"device_action", PyStr(CS_EnumValue(device_action))>>,
                                              <<"speed", PyInt(n)>>}))
               [] device_action = DeviceAction("CHANGE_PATH") ->
                    IF device_type # DeviceType("RELAY")
                    THEN err("CHANGE_PATH action is only valid for RELAY devices.")
                    ELSE IF ~v.ok THEN ErrorResponse(v)
                    ELSE IF v.text = "False" THEN err("Path must be an integer.")
                    ELSE IF ~(0 <= n /\ n <= 3) THEN err("Path must be between 0 and 3.")
                    ELSE Response(0, "",
                                  DataObject({<<"device_id", PyInt(d.id)>>,
                                              <<"device_action", PyStr(CS_EnumValue(device_action))>>,
                                              <<"path", PyInt(n)>>}))
               [] device_action = DeviceAction("GET_VALUE") ->
                    IF device_type # DeviceType("SENSOR")
                    THEN err("GET_VALUE action is only valid for SENSOR devices.")
                    ELSE Response(0, "",
                                  DataObject({<<"device_id", PyInt(d.id)>>,
                                              <<"device_action", PyStr(CS_EnumValue(device_action))>>,
                                              <<"value", PyStr("unknown")>>}))
               [] OTHER -> err("Invalid device action.")

\* Server.get_device_state(message): the state reported is the constant "ON".
CS_get_device_state(map, message) ==
    LET d == CS_device_id(message)
    IN  IF ~d.ok THEN ErrorResponse(d.ret)
        ELSE IF d.id \notin DOMAIN map THEN Response(1, "Invalid device ID.", DataObject({}))
        ELSE Response(0, "",
                      DataObject({<<"device_id", PyInt(d.id)>>,
                                  <<"device_type", PyStr(CS_EnumValue(map[d.id]))>>,
                                  <<"state", PyStr("ON")>>}))

\* Server.process_message(message), for the requests that only read the dictionary.
CS_process_message(map, message) ==
    CASE message.request_type = PyInt(2) -> CS_control_device(map, message)
      [] message.request_type = PyInt(3) -> CS_get_device_state(map, message)
      [] OTHER -> Response(1, "Invalid request type.", DataObject({}))

\* What client-server/server.py is sent.
CSIds == {ToString(i) : i \in 0..MaxId} \cup {"x"}
CSValues == {"2", "20", "150", "abc"}
CSRequests == Requests(CSIds, CSValues)

CSHistInit == [i \in 1..MaxId |-> "off"]

CSInit ==
    /\ csMap = <<>>
    /\ csPc = [c \in Conns |-> "recv"]
    /\ csPending = [c \in Conns |-> NoRequest]
    /\ csIn = [c \in Conns |-> 0]
    /\ csOut = [c \in Conns |-> <<>>]
    /\ csLast = NoTurn
    /\ csHist = CSHistInit
    /\ csCreated = [i \in 1..MaxId |-> 0]

\* Server.handle_client, the end of a turn: send_data(json.dumps(response)); a
\* response json cannot encode ends the handler.
CSAnswer(c, message, resp, k) ==
    /\ csLast' = [conn |-> c, req |-> message, resp |-> resp, sent |-> JsonSerializable(resp)]
    /\ IF JsonSerializable(resp)
       THEN /\ csOut' = [csOut EXCEPT ![c] = Append(@, k)]
            /\ csPc' = [csPc EXCEPT ![c] = "recv"]
       ELSE /\ csPc' = [csPc EXCEPT ![c] = "closed"]
            /\ UNCHANGED csOut

\* The history of the ON/OFF requests answered with result_code 0.
CSHistAfter(message, resp) ==
    IF /\ message.request_type = PyInt(2)
       /\ resp.result_code = 0
       /\ message.device_action.ty = "str"
       /\ Upper(message.device_action.s) \in {"ON", "OFF"}
    THEN [csHist EXCEPT ![int(message.device_id.s)] =
              IF Upper(message.device_action.s) = "ON" THEN "on" ELSE "off"]
    ELSE csHist

\* Server.handle_client, a turn for a Control, GetState or unknown request: received,
\* processed against the dictionary and answered.
CSRequest(c, message) ==
    /\ csPc[c] = "recv"
    /\ csIn[c] < MaxReq
    /\ message.request_type # PyInt(1)
    /\ csIn' = [csIn EXCEPT ![c] = @ + 1]
    /\ LET resp == CS_process_message(csMap, message)
       IN  /\ CSAnswer(c, message, resp, csIn[c] + 1)
           /\ csHist' = CSHistAfter(message, resp)
    /\ UNCHANGED <<csMap, csPending, csCreated>>
    /\ UNCHANGED <<cmVars, smVars, dsVars>>

\* Server.handle_client, a turn for a Create request up to the duplicate check of
\* create_device.  A request that fails the check is answered at once; one that passes
\* goes on to the insertion, which other handlers' steps may precede.
CSCreateCheck(c, message) ==
    /\ csPc[c] = "recv"
    /\ csIn[c] < MaxReq
    /\ message.request_type = PyInt(1)
    /\ csIn' = [csIn EXCEPT ![c] = @ + 1]
    /\ LET d == CS_create_device_check(csMap, message)
       IN  IF d.ok
           THEN /\ csPending' = [csPending EXCEPT ![c] = message]
                /\ csPc' = [csPc EXCEPT ![c] = "insert"]
                /\ UNCHANGED <<csOut, csLast>>
           ELSE /\ CSAnswer(c, message, ErrorResponse(d.ret), csIn[c] + 1)
                /\ UNCHANGED csPending
    /\ UNCHANGED <<csMap, csHist, csCreated>>
    /\ UNCHANGED <<cmVars, smVars, dsVars>>

\* Server.handle_client, the rest of a Create turn: the insertion and the answer; the
\* history counts the Creates answered result_code 0.
CSCreateInsert(c) ==
    /\ csPc[c] = "insert"
    /\ LET r == CS_create_device_insert(csMap, csPending[c])
       IN  /\ csMap' = r.map
           /\ CSAnswer(c, csPending[c], r.resp, csIn[c])
           /\ csCreated' = IF r.resp.result_code = 0
                           THEN [csCreated EXCEPT ![int(csPending[c].device_id.s)] = @ + 1]
                           ELSE csCreated
    /\ csPending' = [csPending EXCEPT ![c] = NoRequest]
    /\ UNCHANGED <<csIn, csHist>>
    /\ UNCHANGED <<cmVars, smVars, dsVars>>

\* Server.handle_client when recv returns no data.
CSDisconnect(c) ==
    /\ csPc[c] = "recv"
    /\ csPc' = [csPc EXCEPT ![c] = "closed"]
    /\ UNCHANGED <<csMap, csPending, csIn, csOut, csLast, csHist, csCreated>>
    /\ UNCHANGED <<cmVars, smVars, dsVars>>

CSNext ==
    \/ \E c \in Conns, m \in CSRequests : CSRequest(c, m)
    \/ \E c \in Conns, m \in CSRequests : CSCreateCheck(c, m)
    \/ \E c \in Conns : CSCreateInsert(c)
    \/ \E c \in Conns : CSDisconnect(c)

(***************************************************************************)
(* A caller of the class_manager Manager that keeps the DeviceStatus it was *)
(* returned, as test_get_device_status does, and goes on calling the       *)
(* Manager.  DeviceStatus.__init__ stores the six values it is passed in    *)
(* attributes of its own; the values are ints, strs and enum members, which *)
(* nothing can change in place.                                            *)
(***************************************************************************)
DSTypes == {DeviceType(n) : n \in DeviceTypeNames}
DSValues == {PyInt(3), PyInt(20), PyInt(150)}

DSValuesFor(action) ==
    IF action \in {DeviceAction("CHANGE_SPEED"), DeviceAction("CHANGE_PATH")}
    THEN DSValues
    ELSE {PyNone}

NoDSCall == [op |-> "none", id |-> PyNone, ok |-> TRUE]

DSInit ==
    /\ dsDevices = <<>>
    /\ dsHeld = NoStatus
    /\ dsLast = NoDSCall

\* manager.create_device(device_type, id, sensor_type)
DSCreate(device_type, id, sensor_type) ==
    /\ Len(dsDevices) < MaxDevices
    /\ LET r == create_device(dsDevices, device_type, id, sensor_type)
       IN  /\ dsDevices' = r.devices
           /\ dsLast' = [op |-> "create_device", id |-> id, ok |-> r.ret.ok]
    /\ UNCHANGED dsHeld
    /\ UNCHANGED <<cmVars, smVars, csVars>>

\* A control_device through which the status the caller holds shows the device as
\* the call leaves it, as a view of the device would.
DSControl_status_as_view(id, action, value) ==
    LET r == control_device(dsDevices, id, action, value)
        i == FirstWithId(r.devices, dsHeld.id)
    IN  /\ dsDevices' = r.devices
        /\ dsLast' = [op |-> "control_device", id |-> id, ok |-> r.ret.ok]
        /\ dsHeld' = IF dsHeld = NoStatus \/ i = 0 THEN dsHeld ELSE device_status(r.devices[i])
        /\ UNCHANGED <<cmVars, smVars, csVars>>

\* manager.control_device(id, action, value): the setters it reaches assign to the
\* device's attributes; the DeviceStatus the caller holds is another object.
DSControl(id, action, value) ==
    LET r == control_device(dsDevices, id, action, value)
    IN  /\ dsDevices' = r.devices
        /\ dsLast' = [op |-> "control_device", id |-> id, ok |-> r.ret.ok]
        /\ UNCHANGED dsHeld
        /\ UNCHANGED <<cmVars, smVars, csVars>>

\* status = manager.get_state(id): the caller holds the new DeviceStatus; when the
\* call raises, the assignment does not happen.
DSGetState(id) ==
    LET r == get_state(dsDevices, id)
    IN  /\ dsHeld' = IF r.ok THEN r.st ELSE dsHeld
        /\ dsLast' = [op |-> "get_state", id |-> id, ok |-> r.ok]
        /\ UNCHANGED dsDevices
        /\ UNCHANGED <<cmVars, smVars, csVars>>

DSNext ==
    \/ \E t \in DSTypes, i \in CMIds, st \in CMSensorTypes : DSCreate(t, i, st)
    \/ \E i \in CMIds, a \in CMActions : \E v \in DSValuesFor(a) : DSControl(i, a, v)
    \/ \E i \in CMIds : DSGetState(i)

Init == CMInit /\ SMInit /\ CSInit /\ DSInit

SpecCM == Init /\ [][CMNext]_vars

SpecSM == Init /\ [][SMNext]_vars

SpecCS == Init /\ [][CSNext]_vars

SpecDS == Init /\ [][DSNext]_vars

(***************************************************************************)
(* The claims.                                                             *)
(***************************************************************************)

\* C1: in every reachable state of the server, whatever requests the connections
\* have sent and however they interleaved, the registry holds at most one device
\* per id.
C1_RegistryIdsUnique ==
    \A i, j \in 1..Len(smDevices) : i # j => smDevices[i].id # smDevices[j].id

\* C2: a create_device call with an id that is already registered fails and leaves
\* the registry exactly as it was.
C2_DuplicateCreateFails ==
    [][(cmLast'.op = "create_device" /\ FirstWithId(cmDevices, cmLast'.id) # 0)
          => (~cmLast'.ret.ok /\ cmDevices' = cmDevices)]_vars

\* C3: the duplicate check and the insertion of a Create request are one atomic
\* step: a Create is answered result_code 0 only when its id is not registered at the
\* moment it is inserted, so of two concurrent Creates of one id only one is answered 0.
C3_CreateCheckAndInsertAtomic ==
    [][(/\ csLast' # csLast
        /\ csLast'.req.request_type = PyInt(1)
        /\ csLast'.resp.result_code = 0)
          => int(csLast'.req.device_id.s) \notin DOMAIN csMap]_vars

\* C4: no request ends the connection-handling loop: after a handler has taken a
\* request it is still running, ready to receive the next one.
C4_NoRequestEndsHandler ==
    [][\A c \in Conns : smIn'[c] # smIn[c] => smPc'[c] = "recv"]_vars

\* C5: every request a handler has received has been answered exactly once, and the
\* answers went out in the order of the requests.
C5_EveryRequestAnsweredInOrder ==
    \A c \in Conns : smOut[c] = [k \in 1..smIn[c] |-> k]

\* The response envelope: result_code 0 or 1, no error message on success, data an
\* object, and an empty one on failure.
Envelope(resp) ==
    /\ resp.result_code \in {0, 1}
    /\ resp.result_code = 0 => resp.error_message = ""
    /\ resp.data.kind = "object"
    /\ resp.result_code = 1 => resp.data.fields = {}

\* C6: every response the dispatcher produces has the envelope's shape.
C6_ResponseEnvelope ==
    smLast.conn # 0 => Envelope(smLast.resp)

\* C7: get_state(id) reports the effect of the successful control calls on id: the
\* status of the latest ON or OFF (off when there was none) and, for a Motor, the
\* speed of the latest successful CHANGE_SPEED.
C7_GetStateReportsControls ==
    \A id \in CMIds :
        FirstWithId(cmDevices, id) # 0 =>
            LET r == get_state(cmDevices, id)
            IN  /\ r.ok
                /\ r.st.id = id
                /\ r.st.status = cmHist[id].status
                /\ (cmDevices[FirstWithId(cmDevices, id)].cls = "Motor"
                    /\ cmHist[id].speed # PyNone) => r.st.speed = cmHist[id].speed

\* C7's case: create Motor 1, control(1, ON), control(1, CHANGE_SPEED, 20), then
\* get_state(1) returns id 1, status on, speed 20 and nothing else.
C7_Witness ==
    /\ cmLast.op = "get_state"
    /\ cmLast.ret = ReturnedStatus(DeviceStatus(PyInt(1), "on", PyInt(20), PyNone, PyNone, PyNone))
    /\ cmHist[PyInt(1)] = [status |-> "on", speed |-> PyInt(20)]

\* C8: a GetState request for a registered id is answered result_code 0 with the
\* device's id and its current status, that of the latest ON/OFF request answered 0
\* (off when there was none).
C8_GetStateAnswer ==
    (csLast.conn # 0 /\ csLast.req.request_type = PyInt(3)) =>
        LET d == CS_device_id(csLast.req)
        IN  (d.ok /\ d.id \in DOMAIN csMap) =>
                /\ csLast.resp.result_code = 0
                /\ <<"device_id", PyInt(d.id)>> \in csLast.resp.data.fields
                /\ <<"state", PyStr(IF csHist[d.id] = "on" THEN "ON" ELSE "OFF")>>
                       \in csLast.resp.data.fields

\* C9: a GetState request for a registered id succeeds, whatever the device's
\* variant and however it was created; it fails only for an id that is absent.
C9_GetStateSucceedsWhenRegistered ==
    (smLast.conn # 0 /\ smLast.req.request_type = PyInt(3)) =>
        (smLast.resp.result_code = 0 <=> FirstWithId(smDevices, smLast.req.device_id) # 0)

\* The type-specific fields of a status are those of the variant cls and no other.
FieldsOfVariant(cls, st) ==
    /\ st.speed # PyNone <=> cls = "Motor"
    /\ st.path # PyNone => cls = "Relay"
    /\ st.value # PyNone <=> cls = "Sensor"
    /\ st.sensor_type # PyNone => cls = "Sensor"

\* C10: for every device a successful create_device has made, in every later state,
\* get_state of its id returns a status with that id and with the type-specific
\* fields of the device's variant only.
C10_StatusFieldsMatchVariant ==
    \A i \in 1..Len(cmDevices) :
        LET r == get_state(cmDevices, cmDevices[i].id)
        IN  /\ r.ok
            /\ r.st.id = cmDevices[i].id
            /\ FieldsOfVariant(cmDevices[i].cls, r.st)

\* The device a Control request of server-with-manager.py acts on: the index of the
\* first device with the request's id, 0 when there is none.
SMTarget(req) == FirstWithId(smDevices, req.device_id)

\* The request is a Control request of the given action.
IsControl(req, action) ==
    /\ req.request_type = PyInt(2)
    /\ req.device_action.ty = "str"
    /\ Upper(req.device_action.s) = action

\* C11: a CHANGE_SPEED on a Motor with a value outside [0,100] fails, and the registry
\* (the motor's speed and status) is after the call what it was before.
C11_SpeedOutOfRangeFails ==
    [][(/\ smIn' # smIn
        /\ IsControl(smLast'.req, "CHANGE_SPEED")
        /\ SMTarget(smLast'.req) # 0
        /\ smDevices[SMTarget(smLast'.req)].cls = "Motor"
        /\ smLast'.req.value.ty = "str"
        /\ isdigit(smLast'.req.value.s)
        /\ int(smLast'.req.value.s) > 100)
          => (smLast'.resp.result_code = 1 /\ smDevices' = smDevices)]_vars

\* C12: in every reachable state every Motor's speed is an integer in [0,100].
C12_MotorSpeedInRange ==
    \A i \in 1..Len(smDevices) :
        smDevices[i].cls = "Motor" =>
            /\ smDevices[i].speed.ty = "int"
            /\ smDevices[i].speed.n \in 0..100

\* C13: a CHANGE_PATH on a Relay sets the path only to 1, 2 or 3, so in every
\* reachable state a Relay's path is unset or an integer in {1,2,3}.
C13_RelayPathInRange ==
    \A i \in 1..Len(smDevices) :
        smDevices[i].cls = "Relay" =>
            \/ smDevices[i].path = PyNone
            \/ smDevices[i].path.ty = "int" /\ smDevices[i].path.n \in 1..3

\* The device a call on the class_manager Manager acts on: the index of the first
\* device with the id, 0 when there is none.
CMTarget(id) == FirstWithId(cmDevices, id)

\* The variant a type-specific action belongs to.
VariantOf(action) ==
    CASE action = DeviceAction("CHANGE_SPEED") -> "Motor"
      [] action = DeviceAction("CHANGE_PATH") -> "Relay"
      [] action = DeviceAction("GET_VALUE") -> "Sensor"
      [] OTHER -> ""

\* C14: a type-specific action (CHANGE_SPEED, CHANGE_PATH, GET_VALUE) applied to a
\* device of another variant fails, whatever the value, with the error of an action
\* inappropriate for the device type, and the registry is left as it was.
C14_ActionOnlyOnMatchingVariant ==
    [][(/\ cmLast'.op = "control_device"
        /\ CMTarget(cmLast'.id) # 0
        /\ VariantOf(cmLast'.action) # ""
        /\ cmDevices[CMTarget(cmLast'.id)].cls # VariantOf(cmLast'.action))
          => (/\ cmLast'.ret =
                    Raised("ValueError",
                           "Unknown action or inappropriate device type for action: "
                           \o PyFormat(cmLast'.action))
              /\ cmDevices' = cmDevices)]_vars

\* C14's case: CHANGE_SPEED with the valid speed 20 was refused on a Relay.
C14_Witness ==
    /\ cmLast.op = "control_device"
    /\ cmLast.action = DeviceAction("CHANGE_SPEED")
    /\ cmLast.value = PyInt(20)
    /\ CMTarget(cmLast.id) # 0
    /\ cmDevices[CMTarget(cmLast.id)].cls = "Relay"
    /\ ~cmLast.ret.ok

\* C15: get_state and control_device on an id that is not registered fail with the
\* error of a device that does not exist, for every action and value, and leave the
\* registry as it was.
C15_UnknownIdNotFound ==
    [][(/\ cmLast'.op \in {"get_state", "control_device"}
        /\ CMTarget(cmLast'.id) = 0)
          => (/\ cmLast'.ret =
                    Raised("ValueError",
                           "Device with ID " \o PyFormat(cmLast'.id) \o " does not exist.")
              /\ cmDevices' = cmDevices)]_vars

\* C15's case: get_state on the empty registry was refused.
C15_Witness ==
    /\ cmDevices = <<>>
    /\ cmLast.op = "get_state"
    /\ cmLast.ret = Raised("ValueError", "Device with ID 1 does not exist.")

\* C16: control_device(id, ON) and control_device(id, OFF) on a registered device of
\* any variant, in any state, succeed; the confirmation names the device's id and the
\* new state, the device's status is the new state and nothing else changes.
C16_OnOffAlwaysSucceed ==
    [][(/\ cmLast'.op = "control_device"
        /\ cmLast'.action \in {DeviceAction("ON"), DeviceAction("OFF")}
        /\ CMTarget(cmLast'.id) # 0)
          => LET i == CMTarget(cmLast'.id)
                 on == cmLast'.action = DeviceAction("ON")
             IN  /\ cmLast'.ret =
                       Returned(cmDevices[i].cls \o " " \o PyFormat(cmLast'.id) \o " is now "
                                \o (IF on THEN "ON." ELSE "OFF."))
                 /\ cmDevices' =
                       [cmDevices EXCEPT ![i].status = IF on THEN "on" ELSE "off"]]_vars

\* C16's case: Sensor 2, off since it was created, was switched on.
C16_Witness ==
    /\ cmLast.op = "control_device"
    /\ cmLast.action = DeviceAction("ON")
    /\ cmLast.ret = Returned("Sensor 2 is now ON.")
    /\ cmDevices = <<[Sensor(PyInt(2), PyNone) EXCEPT !.status = "on"]>>

\* C17: on() is idempotent: an ON that follows a successful ON of the same device
\* succeeds with the same confirmation, leaves the status on, and leaves the registry
\* as the first ON left it.
C17_OnIdempotent ==
    [][cmOnTwice' =>
          /\ cmLast'.ret.ok
          /\ cmLast'.ret = cmLast.ret
          /\ cmDevices' = cmDevices
          /\ cmDevices'[CMTarget(cmLast'.id)].status = "on"]_vars

\* C17's case: two ON calls in a row on one device, the second answered.
C17_Witness ==
    /\ cmOnTwice
    /\ cmLast.ret.ok
    /\ cmDevices[CMTarget(cmLast.id)].status = "on"

\* C18: control_device(id, GET_VALUE) on a Sensor returns the sensor's value, 0, in a
\* message that names the sensor, and leaves every device of the registry unchanged.
C18_GetValueReadsOnly ==
    [][(/\ cmLast'.op = "control_device"
        /\ cmLast'.action = DeviceAction("GET_VALUE")
        /\ CMTarget(cmLast'.id) # 0
        /\ cmDevices[CMTarget(cmLast'.id)].cls = "Sensor")
          => (/\ cmLast'.ret =
                    Returned("Value of sensor " \o PyFormat(cmLast'.id) \o ": 0")
              /\ cmDevices' = cmDevices)]_vars

\* C18's case: create Sensor 2 with LIGHT_SENSOR, then GET_VALUE on it.
C18_Witness ==
    /\ cmLast.op = "control_device"
    /\ cmLast.action = DeviceAction("GET_VALUE")
    /\ cmLast.ret = Returned("Value of sensor 2: 0")
    /\ cmDevices = <<Sensor(PyInt(2), SensorType("LIGHT_SENSOR"))>>

\* C19: a Create request whose device_id is not the text of a positive integer is
\* answered result_code 1 and registers nothing, so in every reachable state every
\* registered device's id is a positive integer (or the text of one).
C19_RegisteredIdsPositive ==
    \A i \in 1..Len(smDevices) :
        \/ smDevices[i].id.ty = "int" /\ smDevices[i].id.n > 0
        \/ /\ smDevices[i].id.ty = "str"
           /\ isdigit(smDevices[i].id.s)
           /\ int(smDevices[i].id.s) > 0

\* C20: a Control request with CHANGE_SPEED or CHANGE_PATH whose value is not the
\* text of a number is answered result_code 1 and leaves the registry as it was.
C20_NonNumericValueRefused ==
    [][(/\ smIn' # smIn
        /\ \/ IsControl(smLast'.req, "CHANGE_SPEED")
           \/ IsControl(smLast'.req, "CHANGE_PATH")
        /\ ~(smLast'.req.value.ty = "str" /\ isdigit(smLast'.req.value.s)))
          => (smLast'.resp.result_code = 1 /\ smDevices' = smDevices)]_vars

\* C21: a create_device with a device type that is no member of DeviceType fails with
\* the error of an unknown device type and registers nothing; a control_device with an
\* action that is no member of DeviceAction fails and changes no device.
C21_UnknownEnumRejected ==
    [][/\ (cmLast'.op = "create_device"
           /\ cmLast'.device_type \notin {DeviceType(n) : n \in DeviceTypeNames})
             => (/\ cmLast'.ret =
                       Raised("ValueError",
                              "Unknown device type: " \o PyFormat(cmLast'.device_type))
                 /\ cmDevices' = cmDevices)
       /\ (cmLast'.op = "control_device"
           /\ cmLast'.action \notin {DeviceAction(n) : n \in DeviceActionNames})
             => (/\ ~cmLast'.ret.ok
                 /\ CMTarget(cmLast'.id) # 0 =>
                       cmLast'.ret =
                          Raised("ValueError",
                                 "Unknown action or inappropriate device type for action: "
                                 \o PyFormat(cmLast'.action))
                 /\ cmDevices' = cmDevices)]_vars

\* C21's case: a create_device with the type "bogus" was refused while a device was
\* registered.
C21_Witness ==
    /\ cmLast.op = "create_device"
    /\ cmLast.device_type = PyStr("bogus")
    /\ cmLast.ret = Raised("ValueError", "Unknown device type: bogus")
    /\ Len(cmDevices) = 1

\* C22: a request whose request_type is none of 1, 2, 3 is answered result_code 1 with
\* the error of an invalid request type, and the registry is left as it was.
C22_InvalidRequestType ==
    [][(/\ smIn' # smIn
        /\ smLast'.req.request_type \notin {PyInt(1), PyInt(2), PyInt(3)})
          => (/\ smLast'.resp = Response(1, "Invalid request type.", DataObject({}))
              /\ smLast'.sent
              /\ smDevices' = smDevices)]_vars

\* C22's case: a request of type 4 was answered while a device was registered.
C22_Witness ==
    /\ smLast.req.request_type = PyInt(4)
    /\ smLast.resp.result_code = 1
    /\ smLast.sent
    /\ Len(smDevices) = 1

\* The turn just taken follows, on another connection, a Create of the same id that
\* was answered result_code 0.
AfterCreateElsewhere ==
    /\ smIn' # smIn
    /\ smLast.conn # 0
    /\ smLast.req.request_type = PyInt(1)
    /\ smLast.resp.result_code = 0
    /\ smLast'.conn # smLast.conn
    /\ smLast'.req.device_id = smLast.req.device_id

\* C23: the registry is shared by the connections: after a device was created by a
\* request of one connection, a GetState or Control request for its id on another
\* connection finds the device, and a Create for its id on another connection is
\* refused as a duplicate and registers nothing.
C23_RegistrySharedByConnections ==
    [][AfterCreateElsewhere =>
          /\ smLast'.req.request_type \in {PyInt(2), PyInt(3)} =>
                smLast'.resp.error_message #
                   "Device with ID " \o PyFormat(smLast'.req.device_id) \o " does not exist."
          /\ smLast'.req.request_type = PyInt(1) =>
                (smLast'.resp.result_code = 1 /\ smDevices' = smDevices)]_vars

C25_CreateAddsOneDevice ==
    [][(cmLast'.op = "create_device" /\ cmLast'.ret.ok) =>
          /\ Len(cmDevices') = Len(cmDevices) + 1
          /\ SubSeq(cmDevices', 1, Len(cmDevices)) = cmDevices
          /\ cmDevices'[Len(cmDevices')].cls = EnumValue(cmLast'.device_type)
          /\ cmDevices'[Len(cmDevices')].id = cmLast'.id
          /\ cmLast'.ret =
                Returned("A " \o EnumValue(cmLast'.device_type) \o " created with id "
                         \o PyFormat(cmLast'.id))]_vars

\* C25's case: Relay 2 was created beside Motor 1, which had been switched on.
C25_Witness ==
    /\ cmLast.op = "create_device"
    /\ cmLast.ret = Returned("A Relay created with id 2")
    /\ cmDevices = <<[Motor(PyInt(1)) EXCEPT !.status = "on"], Relay(PyInt(2))>>

\* C26: a create_device of a Sensor with no sensor_type fails and registers nothing.
C26_SensorNeedsSensorType ==
    [][(/\ cmLast'.op = "create_device"
        /\ cmLast'.device_type = DeviceType("SENSOR")
        /\ cmLast'.sensor_type = PyNone)
          => (~cmLast'.ret.ok /\ cmDevices' = cmDevices)]_vars

\* The same name in the other letter case.
SwapCase(t) ==
    CASE t = "motor" -> "MOTOR"
      [] t = "SENSOR" -> "sensor"
      [] t = "relay" -> "RELAY"
      [] t = "bogus" -> "BOGUS"
      [] t = "on" -> "ON"
      [] t = "OFF" -> "off"
      [] t = "change_speed" -> "CHANGE_SPEED"
      [] t = "change_path" -> "CHANGE_PATH"
      [] t = "get_value" -> "GET_VALUE"
      [] t = "reset" -> "RESET"
      [] OTHER -> t

\* The request with its device_type and device_action in the other letter case.
OtherCase(m) ==
    [m EXCEPT !.device_type = IF @.ty = "str" THEN PyStr(SwapCase(@.s)) ELSE @,
              !.device_action = IF @.ty = "str" THEN PyStr(SwapCase(@.s)) ELSE @]

\* C27: device type names and action names are matched case-insensitively: in every
\* registry state, a Create or Control request and the request that differs from it
\* only in the letter case of device_type or device_action get the same response and
\* leave the same registry.
C27_NamesCaseInsensitive ==
    \A m \in SMRequests :
        m.request_type \in {PyInt(1), PyInt(2)} =>
            /\ OtherCase(m) # m
            /\ Server_process_message(smDevices, OtherCase(m))
                  = Server_process_message(smDevices, m)

\* C27's case: a Create naming the type in lower case registered a Motor, and a
\* Control naming the action in lower case switched it on.
C27_Witness ==
    /\ smLast.req.device_action = PyStr("on")
    /\ smLast.resp.result_code = 0
    /\ smDevices = <<[main_Motor(PyStr("1"), PyInt(0)) EXCEPT !.status = "on"]>>

\* C28: the requests handled concurrently are linearizable: the responses are those of
\* some sequential order of the requests.  In every sequential order the first Create
\* of an id registers it and every later one is refused, so of the Create requests for
\* one id at most one is answered result_code 0.
C28_Linearizable ==
    \A i \in 1..MaxId : csCreated[i] <= 1

\* C29: a request answered result_code 1 leaves the registry as it was: no device is
\* added and no field of a device changes.
C29_FailureLeavesRegistry ==
    [][(smIn' # smIn /\ smLast'.resp.result_code = 1) => smDevices' = smDevices]_vars

\* C29's case: a CHANGE_PATH was refused on a registered Motor.
C29_Witness ==
    /\ IsControl(smLast.req, "CHANGE_PATH")
    /\ smLast.resp.result_code = 1
    /\ SMTarget(smLast.req) # 0
    /\ smDevices[SMTarget(smLast.req)].cls = "Motor"

\* C30: control_device(id, action, value) changes at most the device it acts on, the
\* first one registered under id: the registry keeps its length, every device keeps
\* its id and its variant, and every other device keeps all its fields, whether the
\* call succeeds or fails.
C30_ControlTouchesOneDevice ==
    [][cmLast'.op = "control_device" =>
          /\ Len(cmDevices') = Len(cmDevices)
          /\ \A j \in 1..Len(cmDevices) :
                /\ cmDevices'[j].id = cmDevices[j].id
                /\ cmDevices'[j].cls = cmDevices[j].cls
                /\ j # CMTarget(cmLast'.id) => cmDevices'[j] = cmDevices[j]]_vars

\* C30's case: Motor 1 was switched on beside Relay 2, which stayed off.
C30_Witness ==
    /\ cmLast.op = "control_device"
    /\ cmLast.id = PyInt(1)
    /\ cmLast.ret = Returned("Motor 1 is now ON.")
    /\ cmDevices = <<[Motor(PyInt(1)) EXCEPT !.status = "on"], Relay(PyInt(2))>>

C32_VariantNeverChanges ==
    [][\A i \in DOMAIN csMap : i \in DOMAIN csMap' => csMap'[i] = csMap[i]]_vars

\* C33: the Manager of main.py and the Manager of class_manager are equivalent: from
\* every registry the two have built by the same calls, every further create_device,
\* control_device or get_state call with the same arguments succeeds in both or fails
\* in both, leaves the same devices and reports the same device state.
C33_ManagersEquivalent ==
    /\ \A t \in CMTypes, id \in CMIds, st \in CMSensorTypes :
          LET x == create_device(cmDevices, t, id, st)
              y == main_create_device(cmDevices, t, id, PyInt(0), st, PyNone)
          IN  x.ret.ok = y.ret.ok /\ x.devices = y.devices
    /\ \A id \in CMIds, a \in CMActions :
          \A v \in CMValuesFor(a) :
             LET x == control_device(cmDevices, id, a, v)
                 y == main_control_device(cmDevices, id, a, v)
             IN  x.ret.ok = y.ret.ok /\ x.devices = y.devices
    /\ \A id \in CMIds :
          LET x == get_state(cmDevices, id)
              y == main_get_state(cmDevices, id)
          IN  x.ok = y.ok /\ x.st = y.st

\* C34: get_state(id) never changes the registry: the devices and every field of
\* every device are after the call what they were before it, whether the call returns
\* a status or fails because no device has the id.
C34_GetStateReadsOnly ==
    [][cmLast'.op = "get_state" => cmDevices' = cmDevices]_vars

\* C34's case: get_state(2) returned the status of Sensor 2, which had been switched
\* on, and the sensor is still on.
C34_Witness ==
    /\ cmLast.op = "get_state"
    /\ cmLast.ret =
          ReturnedStatus(DeviceStatus(PyInt(2), "on", PyNone, PyNone,
                                      SensorType("LIGHT_SENSOR"), PyInt(0)))
    /\ cmDevices = <<[Sensor(PyInt(2), SensorType("LIGHT_SENSOR")) EXCEPT !.status = "on"]>>

\* C35: a DeviceStatus returned by get_state is a snapshot: the control_device calls
\* made afterwards, on its device or another, change no value the status holds; a
\* get_state that returns gives the caller the state of the device as it is then.
C35_StatusIsSnapshot ==
    [][/\ dsLast'.op = "control_device" => dsHeld' = dsHeld
       /\ (dsLast'.op = "get_state" /\ dsLast'.ok) =>
             dsHeld' = device_status(dsDevices'[FirstWithId(dsDevices', dsLast'.id)])]_vars

\* C35's case: the caller holds the status of Motor 1 taken when it was off with
\* speed 0; the motor has since been switched on and set to speed 20.
C35_Witness ==
    /\ dsHeld = DeviceStatus(PyInt(1), "off", PyInt(0), PyNone, PyNone, PyNone)
    /\ dsDevices = <<[Motor(PyInt(1)) EXCEPT !.status = "on", !.speed = PyInt(20)]>>
    /\ dsLast = [op |-> "control_device", id |-> PyInt(1), ok |-> TRUE]

\* C36: the device a successful create_device registers starts with status off; a
\* new Motor has speed 0, a new Relay has no path, and a new Sensor has value 0 and
\* the sensor type the call was given.
C36_NewDeviceStartsOff ==
    [][(cmLast'.op = "create_device" /\ cmLast'.ret.ok) =>
          LET d == cmDevices'[Len(cmDevices')]
          IN  /\ d.status = "off"
              /\ cmLast'.device_type = DeviceType("MOTOR") => d.speed = PyInt(0)
              /\ cmLast'.device_type = DeviceType("RELAY") => d.path = PyNone
              /\ cmLast'.device_type = DeviceType("SENSOR") =>
                    (d.value = PyInt(0) /\ d.sensor_type = cmLast'.sensor_type)]_vars

\* C36's case: Sensor 2 was created with LIGHT_SENSOR beside Motor 1, which is on at
\* speed 20; the sensor is off, with value 0 and that sensor type.
C36_Witness ==
    /\ cmLast.op = "create_device"
    /\ cmLast.ret.ok
    /\ cmDevices = <<[Motor(PyInt(1)) EXCEPT !.status = "on", !.speed = PyInt(20)],
                     [cls |-> "Sensor", id |-> PyInt(2), status |-> "off", speed |-> PyNone,
                      path |-> PyNone, sensor_type |-> SensorType("LIGHT_SENSOR"),
                      value |-> PyInt(0)]>>

\* C37: with the Manager of main.py, a CHANGE_SPEED on a Motor and a CHANGE_PATH on a
\* Relay succeed for every value supplied: the value is stored as the device's speed
\* or path, nothing else changes, and the confirmation names the id and the value.
C37_MainStoresAnyValue ==
    [][(smIn' # smIn /\ SMTarget(smLast'.req) # 0) =>
          LET i == SMTarget(smLast'.req)
              id == PyFormat(smLast'.req.device_id)
              v == smLast'.req.value
          IN  /\ (IsControl(smLast'.req, "CHANGE_SPEED") /\ smDevices[i].cls = "Motor") =>
                    /\ smLast'.resp =
                          Response(0, "", DataStr("Speed of motor " \o id \o " changed to "
                                                  \o PyFormat(v)))
                    /\ smDevices' = [smDevices EXCEPT ![i].speed = v]
              /\ (IsControl(smLast'.req, "CHANGE_PATH") /\ smDevices[i].cls = "Relay") =>
                    /\ smLast'.resp =
                          Response(0, "", DataStr("Path of relay " \o id \o " changed to "
                                                  \o PyFormat(v)))
                    /\ smDevices' = [smDevices EXCEPT ![i].path = v]]_vars

\* C37's case: Motor "1" was given the speed "150", above 100, and Relay "x" the
\* path "abc"; both requests were answered result_code 0.
C37_Witness ==
    /\ IsControl(smLast.req, "CHANGE_PATH")
    /\ smLast.resp = Response(0, "", DataStr("Path of relay x changed to abc"))
    /\ smDevices = <<[main_Motor(PyStr("1"), PyInt(0)) EXCEPT !.speed = PyStr("150")],
                     [main_Relay(PyStr("x"), PyNone) EXCEPT !.path = PyStr("abc")]>>

====
